---- MODULE Spec2Model ----
(***************************************************************************)
(* redbot.core.utils.antispam.AntiSpam as a state machine.                 *)
(*                                                                         *)
(* Time is counted in whole seconds: a datetime is a natural number, a     *)
(* timedelta an integer (timedelta may be zero or negative).  `now` is the *)
(* wall clock that datetime.utcnow() reads.  Every call of utcnow() in the *)
(* source is a separate read of the clock: the clock may advance between   *)
(* two reads of the same call, never go back.                              *)
(***************************************************************************)
EXTENDS Integers, Sequences, FiniteSets, TLC

VARIABLES
    now,               \* the wall clock read by datetime.utcnow()
    given,             \* the `intervals` argument AntiSpam(...) was built with
    raised,            \* the exception the constructor raised, "none" if it returned
    event_timestamps,  \* self.__event_timestamps
    intervals,         \* self.__intervals
    discard_after,     \* self.__discard_after
    op,                \* the call that produced this state
    ret,               \* the value the last spammy returned
    readFirst,         \* first clock value the last call read
    readLast,          \* last clock value the last call read
    prev_timestamps,   \* self.__event_timestamps when the last call began
    history,           \* every timestamp stamp() ever appended, oldest first
    counters,          \* one sliding-window log per interval (the reference)
    twin,              \* a second AntiSpam, built with the explicit form of `given`
    pace,              \* seconds between two events of the periodic caller
    streak,            \* the last two values spammy returned since the last stamp()
    pc,                \* where each concurrent caller of stamp() stands
    filtered,          \* the list each concurrent caller's comprehension built
    overlapped,        \* two stamp() calls have been in progress at the same time
    form,              \* safety.py: the function used, "warn_unsafe" or "unsafe"
    function,          \* safety.py: the target callable
    message,           \* safety.py: the message argument
    returned,          \* safety.py: the value the form returned
    events,            \* safety.py: warnings emitted and calls of the target, in order
    outcome,           \* safety.py: how the last invocation of `returned` ended
    lastargs           \* safety.py: the arguments of that invocation

vars == <<now, given, raised, event_timestamps, intervals, discard_after,
          op, ret, readFirst, readLast, prev_timestamps, history, counters,
          twin, pace, streak, pc, filtered, overlapped,
          form, function, message, returned, events, outcome, lastargs>>

concvars == <<pc, filtered, overlapped>>

safetyvars == <<form, function, message, returned, events, outcome, lastargs>>

\* ---- bounds of the exploration ----
MaxTime == 4       \* the clock stops advancing here
MaxStamps == 3     \* number of stamp() calls explored
MaxSkew == 2       \* seconds the clock may advance between the reads of one call
MaxAdvance == 1    \* seconds the clock may advance between two calls
MaxStampsD == 24   \* number of stamp() calls of the periodic caller
MaxTicksD == 30    \* number of periods the periodic caller's clock advances
MaxCalls == 2      \* number of invocations of a marked function

\* ---- helpers ----
Max(S) == CHOOSE m \in S : \A y \in S : y <= m

\* ---- antispam.py ----
AntiSpamInterval(x) == [period |-> x[1], frequency |-> x[2]]

\* default_intervals with 6 where the source has 5
default_intervals_typo ==
    << <<5, 3>>, <<60, 6>>, <<3600, 10>>, <<86400, 24>> >>

default_intervals ==
    << <<5, 3>>, <<60, 5>>, <<3600, 10>>, <<86400, 24>> >>

Min(S) == CHOOSE m \in S : \A y \in S : m <= y

\* __init__ with min(...) where the source has max(...)
AntiSpam_init_min(itvs) ==
    LET _itvs == IF itvs # <<>> THEN itvs ELSE default_intervals
        ivs   == [i \in 1..Len(_itvs) |-> AntiSpamInterval(_itvs[i])]
    IN  [event_timestamps |-> <<>>,
         intervals        |-> ivs,
         discard_after    |-> Min({ivs[i].period : i \in 1..Len(ivs)})]

\* AntiSpam.__init__: the instance fields after construction with `itvs`.
AntiSpam_init(itvs) ==
    LET _itvs == IF itvs # <<>> THEN itvs ELSE default_intervals
        ivs   == [i \in 1..Len(_itvs) |-> AntiSpamInterval(_itvs[i])]
    IN  [event_timestamps |-> <<>>,
         intervals        |-> ivs,
         discard_after    |-> Max({ivs[i].period : i \in 1..Len(ivs)})]

\* The clock values one call can read: read number i (1, 2, ...) returns
\* base + the number of seconds that have begun by then.  j[a] is the read at
\* which the a-th second of skew has elapsed (n+1: not during these n reads).
Schedules(n) ==
    {j \in [1..MaxSkew -> 1..(n + 1)] :
        \A a, b \in 1..MaxSkew : a < b => j[a] <= j[b]}

utcnow(base, j, i) == base + Cardinality({a \in DOMAIN j : j[a] <= i})

\* __interval_check with >= where the source compares with >
interval_check_nonstrict(ts, interval, base, j, off) ==
    Cardinality({i \in 1..Len(ts) :
                    ts[i] + interval.period >= utcnow(base, j, off + i)})
        >= interval.frequency

\* __interval_check with < where the source compares with >
interval_check_inverted(ts, interval, base, j, off) ==
    Cardinality({i \in 1..Len(ts) :
                    ts[i] + interval.period < utcnow(base, j, off + i)})
        >= interval.frequency

\* __interval_check that counts every timestamp of the log, whatever its age
interval_check_all(ts, interval, base, j, off) ==
    Len(ts) >= interval.frequency

\* AntiSpam.__interval_check: utcnow() is read once per timestamp; `off` reads
\* were made before this check began.
interval_check(ts, interval, base, j, off) ==
    Cardinality({i \in 1..Len(ts) :
                    ts[i] + interval.period > utcnow(base, j, off + i)})
        >= interval.frequency

\* any(...) stops at the first interval whose check is true.
FirstHit(ts, ivs, base, j) ==
    LET hits == {k \in 1..Len(ivs) :
                    interval_check(ts, ivs[k], base, j, (k - 1) * Len(ts))}
    IN  IF hits = {} THEN 0 ELSE CHOOSE k \in hits : \A h \in hits : k <= h

\* AntiSpam.spammy
spammy(ts, ivs, base, j) == FirstHit(ts, ivs, base, j) # 0

\* number of clock reads spammy makes
SpammyReads(ts, ivs, base, j) ==
    LET k == FirstHit(ts, ivs, base, j)
    IN  IF k = 0 THEN Len(ivs) * Len(ts) ELSE k * Len(ts)

\* the list comprehension of stamp() with >= where the source compares with >
RECURSIVE Keep_nonstrict(_, _, _, _, _)
Keep_nonstrict(ts, i, d, base, j) ==
    IF i > Len(ts) THEN <<>>
    ELSE (IF ts[i] + d >= utcnow(base, j, i) THEN <<ts[i]>> ELSE <<>>)
            \o Keep_nonstrict(ts, i + 1, d, base, j)

\* the list comprehension of stamp() discarding one second too early
RECURSIVE Keep_tight(_, _, _, _, _)
Keep_tight(ts, i, d, base, j) ==
    IF i > Len(ts) THEN <<>>
    ELSE (IF ts[i] + d > utcnow(base, j, i) + 1 THEN <<ts[i]>> ELSE <<>>)
            \o Keep_tight(ts, i + 1, d, base, j)

\* a list comprehension that keeps every element
RECURSIVE Keep_all(_, _, _, _, _)
Keep_all(ts, i, d, base, j) ==
    IF i > Len(ts) THEN <<>> ELSE <<ts[i]>> \o Keep_all(ts, i + 1, d, base, j)

\* the list comprehension of stamp(): element i is kept when
\* t + discard_after > utcnow(), utcnow() read anew for each element
RECURSIVE Keep(_, _, _, _, _)
Keep(ts, i, d, base, j) ==
    IF i > Len(ts) THEN <<>>
    ELSE (IF ts[i] + d > utcnow(base, j, i) THEN <<ts[i]>> ELSE <<>>)
            \o Keep(ts, i + 1, d, base, j)

\* AntiSpam.stamp: read 0 is the utcnow() that is appended
stamp(ts, d, base, j) == Keep(Append(ts, utcnow(base, j, 0)), 1, d, base, j)

\* The independent sliding-window counter of one interval: a log of its own,
\* pruned at its own period whenever an event is recorded.
CounterStamp(c, period, t) ==
    SelectSeq(Append(c, t), LAMBDA x : x + period > t)

\* ---- the constructor's arguments explored ----
\* valid lists and lists with a zero or negative period or frequency (the
\* constructor accepts them); the empty list is explored by SpecDefault
IntervalLists ==
    { << <<1, 1>> >>, << <<2, 2>> >>, << <<2, 3>> >>, << <<4, 3>> >>,
      << <<0, 1>> >>, << <<-1, 1>> >>, << <<2, 0>> >>, << <<1, -1>> >>,
      << <<1, 2>>, <<4, 3>> >>, << <<4, 3>>, <<1, 2>> >>,
      << <<0, 1>>, <<2, 2>> >>, << <<2, 2>>, <<2, 0>> >> }

\* The list AntiSpam(...) is documented to fall back to, written out.
ExplicitDefaults ==
    << <<5, 3>>, <<60, 5>>, <<3600, 10>>, <<86400, 24>> >>

Explicit(itvs) == IF itvs = <<>> THEN ExplicitDefaults ELSE itvs

\* a call whose clock reads all return the same value
Steady(n) == [a \in 1..MaxSkew |-> n + 1]

LastTwo(s) == IF Len(s) <= 2 THEN s ELSE SubSeq(s, Len(s) - 1, Len(s))

\* ---- the state machine ----
\* the state after AntiSpam(g) returned
Constructed(g) ==
    /\ now = 0
    /\ given = g
    /\ raised = "none"
    /\ event_timestamps = AntiSpam_init(g).event_timestamps
    /\ intervals = AntiSpam_init(g).intervals
    /\ discard_after = AntiSpam_init(g).discard_after
    /\ op = "init"
    /\ ret = FALSE
    /\ readFirst = 0
    /\ readLast = 0
    /\ prev_timestamps = <<>>
    /\ history = <<>>
    /\ counters = [k \in 1..Len(AntiSpam_init(g).intervals) |-> <<>>]
    /\ twin = [ret |-> FALSE] @@ AntiSpam_init(Explicit(g))
    /\ streak = <<>>

\* ---- safety.py ----
\* a message argument: None, or a string
None == [given |-> FALSE, text |-> ""]

Str(t) == [given |-> TRUE, text |-> t]

\* `message or ...`: None and the empty string are false
Truthy(m) == m.given /\ m.text # ""

\* actual_message = message or f"{func.__name__} is unsafe for use"
actual_message(m, func) ==
    IF Truthy(m) THEN m.text ELSE func.name \o " is unsafe for use"

\* func(*args, **kwargs): the target returns a value or raises
Apply(func, args) ==
    [kind |-> IF func.raises THEN "raise" ELSE "return",
     of |-> func.name, args |-> args]

\* the closure get_wrapped around func
get_wrapped(func) == [kind |-> "get_wrapped", func |-> func]

\* the inner function `wrapper`, not yet applied to any function
wrapper == [kind |-> "wrapper", func |-> [name |-> "", raises |-> FALSE]]

\* unsafe(function, message): returns wrapper
unsafe(fn, m) == wrapper

\* warn_unsafe(function, message): returns wrapper(function)
warn_unsafe(fn, m) == get_wrapped(fn)

\* no concurrent caller is inside stamp()
NoCallers ==
    /\ pc = [c \in {1, 2} |-> "idle"]
    /\ filtered = [c \in {1, 2} |-> <<>>]
    /\ overlapped = FALSE

\* the state after f(fn, m) returned, f being warn_unsafe or unsafe
Marked(f, fn, m) ==
    /\ form = f
    /\ function = fn
    /\ message = m
    /\ returned = IF f = "unsafe" THEN unsafe(fn, m) ELSE warn_unsafe(fn, m)
    /\ events = <<>>
    /\ outcome = [kind |-> "none", of |-> "", args |-> <<>>]
    /\ lastargs = <<>>

Init ==
    /\ \E g \in IntervalLists : Constructed(g)
    /\ pace = 0
    /\ NoCallers
    /\ Marked("warn_unsafe", [name |-> "f", raises |-> FALSE], None)

\* a spammy that also discards the timestamps older than discard_after
DoSpammy_pruning(j) ==
    LET n == SpammyReads(event_timestamps, intervals, now, j)
    IN  /\ ret' = spammy(event_timestamps, intervals, now, j)
        /\ readFirst' = IF n = 0 THEN now ELSE utcnow(now, j, 1)
        /\ readLast' = utcnow(now, j, n)
        /\ now' = utcnow(now, j, n)
        /\ op' = "spammy"
        /\ prev_timestamps' = event_timestamps
        /\ event_timestamps' =
              SelectSeq(event_timestamps, LAMBDA t : t + discard_after > now)
        /\ twin' = [twin EXCEPT !.ret =
                        spammy(twin.event_timestamps, twin.intervals, now, j)]
        /\ streak' = LastTwo(Append(streak,
                                    spammy(event_timestamps, intervals, now, j)))
        /\ UNCHANGED <<given, raised, intervals, discard_after, history,
                       counters, pace, concvars, safetyvars>>

\* a read of the property AntiSpam.spammy whose clock reads follow j
DoSpammy(j) ==
    LET n == SpammyReads(event_timestamps, intervals, now, j)
    IN  /\ ret' = spammy(event_timestamps, intervals, now, j)
        /\ readFirst' = IF n = 0 THEN now ELSE utcnow(now, j, 1)
        /\ readLast' = utcnow(now, j, n)
        /\ now' = utcnow(now, j, n)
        /\ op' = "spammy"
        /\ prev_timestamps' = event_timestamps
        /\ twin' = [twin EXCEPT !.ret =
                        spammy(twin.event_timestamps, twin.intervals, now, j)]
        /\ streak' = LastTwo(Append(streak,
                                    spammy(event_timestamps, intervals, now, j)))
        /\ UNCHANGED <<given, raised, event_timestamps, intervals,
                       discard_after, history, counters, pace, concvars, safetyvars>>

\* a call of AntiSpam.stamp() whose clock reads follow j
DoStamp(j) ==
    LET n == Len(event_timestamps) + 1
    IN  /\ event_timestamps' = stamp(event_timestamps, discard_after, now, j)
        /\ readFirst' = utcnow(now, j, 0)
        /\ readLast' = utcnow(now, j, n)
        /\ now' = utcnow(now, j, n)
        /\ op' = "stamp"
        /\ prev_timestamps' = event_timestamps
        /\ history' = Append(history, utcnow(now, j, 0))
        /\ counters' = [k \in DOMAIN counters |->
                          CounterStamp(counters[k], intervals[k].period,
                                       utcnow(now, j, 0))]
        /\ twin' = [twin EXCEPT !.event_timestamps =
                        stamp(twin.event_timestamps, twin.discard_after, now, j)]
        /\ streak' = <<>>
        /\ UNCHANGED <<given, raised, intervals, discard_after, ret, pace,
                       concvars, safetyvars>>

\* time passes between two calls
Tick ==
    \E d \in 1..MaxAdvance :
        /\ now + d <= MaxTime
        /\ now' = now + d
        /\ op' = "tick"
        /\ UNCHANGED <<given, raised, event_timestamps, intervals, discard_after,
                       ret, readFirst, readLast, prev_timestamps, history,
                       counters, twin, pace, streak, concvars, safetyvars>>

Spammy ==
    \E j \in Schedules(Len(intervals) * Len(event_timestamps)) :
        /\ utcnow(now, j, SpammyReads(event_timestamps, intervals, now, j)) <= MaxTime
        /\ DoSpammy(j)

Stamp ==
    /\ Len(history) < MaxStamps
    /\ \E j \in Schedules(Len(event_timestamps) + 1) :
        /\ utcnow(now, j, Len(event_timestamps) + 1) <= MaxTime
        /\ DoStamp(j)

Next == Tick \/ Spammy \/ Stamp

Spec == Init /\ [][Next]_vars

\* ---- the periodic caller: AntiSpam([]) stamped once every `pace` seconds ----
Paces == {1, 14, 300, 3000}

InitD ==
    /\ Constructed(<<>>)
    /\ pace \in Paces
    /\ NoCallers
    /\ Marked("warn_unsafe", [name |-> "f", raises |-> FALSE], None)

StampedNow == history # <<>> /\ history[Len(history)] = now

TickD ==
    /\ StampedNow \/ Len(history) = MaxStampsD
    /\ now + pace <= pace * MaxTicksD
    /\ now' = now + pace
    /\ op' = "tick"
    /\ UNCHANGED <<given, raised, event_timestamps, intervals, discard_after,
                   ret, readFirst, readLast, prev_timestamps, history,
                   counters, twin, pace, streak, concvars, safetyvars>>

SpammyD ==
    /\ op # "spammy"
    /\ DoSpammy(Steady(Len(intervals) * Len(event_timestamps)))

StampD ==
    /\ Len(history) < MaxStampsD
    /\ ~StampedNow
    /\ DoStamp(Steady(Len(event_timestamps) + 1))

NextD == TickD \/ SpammyD \/ StampD

SpecDefault == InitD /\ [][NextD]_vars

\* ---- two callers inside stamp() of one AntiSpam, no lock ----
Callers == {1, 2}

ConcLists == { << <<1, 1>> >>, << <<2, 2>> >>, << <<4, 3>> >> }

InitC ==
    /\ \E g \in ConcLists : Constructed(g)
    /\ pace = 0
    /\ NoCallers
    /\ Marked("warn_unsafe", [name |-> "f", raises |-> FALSE], None)

\* a step of caller c falls inside a call of the other caller
Overlaps(c) == \E o \in Callers \ {c} : pc[o] # "idle"

\* line 69: self.__event_timestamps.append(datetime.utcnow())
AppendC(c) ==
    /\ pc[c] = "idle"
    /\ Len(history) < MaxStamps
    /\ event_timestamps' = Append(event_timestamps, now)
    /\ history' = Append(history, now)
    /\ pc' = [pc EXCEPT ![c] = "appended"]
    /\ overlapped' = (overlapped \/ Overlaps(c))
    /\ op' = "append"
    /\ UNCHANGED <<now, given, raised, intervals, discard_after, ret, readFirst,
                   readLast, prev_timestamps, counters, twin, pace, streak,
                   filtered, safetyvars>>

\* lines 70-72, right-hand side: the comprehension reads the current list
FilterC(c) ==
    /\ pc[c] = "appended"
    /\ \E j \in Schedules(Len(event_timestamps)) :
          /\ utcnow(now, j, Len(event_timestamps)) <= MaxTime
          /\ filtered' = [filtered EXCEPT ![c] =
                             Keep(event_timestamps, 1, discard_after, now, j)]
          /\ now' = utcnow(now, j, Len(event_timestamps))
    /\ pc' = [pc EXCEPT ![c] = "filtered"]
    /\ overlapped' = (overlapped \/ Overlaps(c))
    /\ op' = "filter"
    /\ UNCHANGED <<given, raised, event_timestamps, intervals, discard_after,
                   ret, readFirst, readLast, prev_timestamps, history, counters,
                   twin, pace, streak, safetyvars>>

\* line 70, the assignment: self.__event_timestamps = <the list built>
AssignC(c) ==
    /\ pc[c] = "filtered"
    /\ event_timestamps' = filtered[c]
    /\ pc' = [pc EXCEPT ![c] = "idle"]
    /\ overlapped' = (overlapped \/ Overlaps(c))
    /\ op' = "stamp"
    /\ UNCHANGED <<now, given, raised, intervals, discard_after, ret, readFirst,
                   readLast, prev_timestamps, history, counters, twin, pace,
                   streak, filtered, safetyvars>>

TickC ==
    /\ now + 1 <= MaxTime
    /\ now' = now + 1
    /\ UNCHANGED <<given, raised, event_timestamps, intervals, discard_after,
                   op, ret, readFirst, readLast, prev_timestamps, history,
                   counters, twin, pace, streak, concvars, safetyvars>>

NextC ==
    \/ TickC
    \/ \E c \in Callers : AppendC(c)
    \/ \E c \in Callers : FilterC(c)
    \/ \E c \in Callers : AssignC(c)

SpecConc == InitC /\ [][NextC]_vars

\* ---- a function marked with safety.py and invoked ----
Functions == [name : {"f", "g"}, raises : BOOLEAN]

Messages == {None, Str(""), Str("do not call")}

Args == {<<>>, <<1>>, <<1, 2>>}

InitS ==
    /\ Constructed(<<>>)
    /\ pace = 0
    /\ NoCallers
    /\ \E f \in {"warn_unsafe", "unsafe"}, fn \in Functions, m \in Messages :
          Marked(f, fn, m)

\* returned(*args): get_wrapped warns, then calls func; wrapper takes exactly
\* one argument and returns a new get_wrapped around it
Invoke ==
    /\ Len(events) < 2 * MaxCalls
    /\ \E args \in Args :
          /\ lastargs' = args
          /\ IF returned.kind = "get_wrapped"
                THEN /\ events' = events \o
                          << [ev |-> "warn",
                              text |-> actual_message(message, returned.func),
                              args |-> <<>>],
                             [ev |-> "call", text |-> returned.func.name,
                              args |-> args] >>
                     /\ outcome' = Apply(returned.func, args)
                ELSE /\ events' = events
                     /\ outcome' =
                          IF Len(args) = 1
                            THEN [kind |-> "return", of |-> "get_wrapped",
                                  args |-> args]
                            ELSE [kind |-> "raise", of |-> "TypeError",
                                  args |-> args]
    /\ UNCHANGED <<now, given, raised, event_timestamps, intervals, discard_after,
                   op, ret, readFirst, readLast, prev_timestamps, history,
                   counters, twin, pace, streak, concvars,
                   form, function, message, returned>>

NextS == Invoke

SpecSafety == InitS /\ [][NextS]_vars

\* ---- what the claims speak of ----
\* the timestamps of ts that interval `period` still counts at time t
InWindow(ts, period, t) == {i \in 1..Len(ts) : ts[i] + period > t}

Breached(ts, iv, t) == Cardinality(InWindow(ts, iv.period, t)) >= iv.frequency

OverLimit(ts, ivs, t) == \E k \in 1..Len(ivs) : Breached(ts, ivs[k], t)

LastK(s, k) == SubSeq(s, Len(s) - k + 1, Len(s))

\* the iv.frequency most recent stamp() calls lie within a span shorter than
\* iv.period, and the oldest of them has not aged out of iv.period
Burst(iv) ==
    /\ iv.frequency >= 1
    /\ Len(history) >= iv.frequency
    /\ history[Len(history)] - history[Len(history) - iv.frequency + 1] < iv.period
    /\ now < history[Len(history) - iv.frequency + 1] + iv.period

\* C1: spammy returns TRUE iff some interval (period, frequency) has at least
\* `frequency` timestamps t in the log with t + period > now (a timestamp
\* with t + period = now is not counted); one breached interval suffices.
\* `now` is the value the clock reads during the call; when the clock
\* advances during the call the result lies between the answer at the last
\* read and the answer at the first read.
C1_SpammyIffSomeIntervalBreached ==
    op = "spammy" =>
        /\ readFirst = readLast =>
              (ret <=> OverLimit(event_timestamps, intervals, readLast))
        /\ OverLimit(event_timestamps, intervals, readLast) => ret
        /\ ret => OverLimit(event_timestamps, intervals, readFirst)

\* spammy answered TRUE on one breached interval while another interval is
\* below its frequency only because a timestamp exactly `period` old is not
\* counted
C1_Witness ==
    /\ op = "spammy" /\ readFirst = readLast /\ ret
    /\ \E k \in 1..Len(intervals) :
          /\ ~Breached(event_timestamps, intervals[k], now)
          /\ \E i \in 1..Len(event_timestamps) :
                event_timestamps[i] + intervals[k].period = now
          /\ Cardinality({i \in 1..Len(event_timestamps) :
                            event_timestamps[i] + intervals[k].period >= now})
                >= intervals[k].frequency

\* C2: for every interval (period, frequency): when the `frequency` most
\* recent stamp() calls lie within a span shorter than `period` and the
\* oldest of them has not aged out (now < t_first + period), those timestamps
\* are all still in the log and a spammy returning now returns TRUE.
C2_BurstIsSpammy ==
    \A k \in 1..Len(intervals) :
        Burst(intervals[k]) =>
            /\ Len(event_timestamps) >= intervals[k].frequency
            /\ LastK(event_timestamps, intervals[k].frequency)
                  = LastK(history, intervals[k].frequency)
            /\ op = "spammy" => ret

\* spammy answered TRUE on a burst of at least two events, after an older
\* event had been discarded
C2_Witness ==
    /\ op = "spammy" /\ ret
    /\ Len(history) > Len(event_timestamps)
    /\ \E k \in 1..Len(intervals) :
          intervals[k].frequency >= 2 /\ Burst(intervals[k])

\* C3: when for every interval fewer than `frequency` of all the timestamps
\* ever stamped have t + period > now (now: the clock when the query
\* begins), spammy returns FALSE.
C3_BelowEveryLimitIsNotSpammy ==
    (op = "spammy"
     /\ \A k \in 1..Len(intervals) : ~Breached(history, intervals[k], readFirst))
        => ~ret

\* spammy answered FALSE although some interval has seen `frequency` events
\* in all: the older ones have aged out of its period
C3_Witness ==
    /\ op = "spammy" /\ ~ret
    /\ \A k \in 1..Len(intervals) : ~Breached(history, intervals[k], readFirst)
    /\ \E k \in 1..Len(intervals) :
          /\ intervals[k].frequency >= 2
          /\ Len(history) >= intervals[k].frequency
          /\ history[Len(history)] = now

\* C4: right after stamp() every timestamp t in the log has
\* now - t < discard_after, now being the time this stamp() appended, and
\* discard_after is the largest period of the intervals.
C4_PruningBound ==
    op = "stamp" =>
        /\ discard_after = Max({intervals[k].period : k \in 1..Len(intervals)})
        /\ \A i \in 1..Len(event_timestamps) :
              readFirst - event_timestamps[i] < discard_after

\* a stamp() that discarded an entry and kept an older-than-now one
C4_Witness ==
    /\ op = "stamp"
    /\ Len(event_timestamps) >= 2
    /\ Len(event_timestamps) < Len(prev_timestamps) + 1
    /\ event_timestamps[1] < readFirst

\* C5: a read of spammy leaves the log, the intervals and discard_after as
\* they were, and a second read with no stamp() and no clock advance since
\* the first returns the same boolean.
C5_SpammyIsPure ==
    [][op' = "spammy" =>
          /\ event_timestamps' = event_timestamps
          /\ intervals' = intervals
          /\ discard_after' = discard_after
          /\ (op = "spammy" /\ readFirst = readLast /\ now' = now)
                => ret' = ret]_vars

\* after a read of spammy the log still holds a timestamp that stamp()
\* would discard
C5_Witness ==
    /\ op = "spammy"
    /\ event_timestamps = prev_timestamps
    /\ \E i \in 1..Len(event_timestamps) :
          event_timestamps[i] + discard_after <= now

\* C6: stamp() leaves exactly the prior entries t with t + discard_after > now,
\* in their order, followed by the one new entry now, and leaves the intervals
\* and discard_after as they were.
C6_StampEffect ==
    [][op' = "stamp" =>
          /\ event_timestamps' =
                Append(SelectSeq(event_timestamps,
                                 LAMBDA t : t + discard_after > readFirst'),
                       readFirst')
          /\ intervals' = intervals
          /\ discard_after' = discard_after]_vars

InvalidThreshold(x) == x[1] <= 0 \/ x[2] <= 0

\* C8: constructing AntiSpam with an interval whose frequency is not positive
\* or whose period is zero or negative raises InvalidConfiguration.
C8_ConstructionValidation ==
    (\E i \in 1..Len(given) : InvalidThreshold(given[i]))
        => raised = "InvalidConfiguration"

\* the answer of the independent counters at time t
CountersOverLimit(t) ==
    \E k \in 1..Len(intervals) :
        Cardinality(InWindow(counters[k], intervals[k].period, t))
            >= intervals[k].frequency

\* C9: at every read, spammy equals the OR over the independent per-interval
\* counters of (count >= frequency).  When the clock advances during the
\* read the result lies between the counters' answer at the last clock read
\* and their answer at the first.
C9_EqualsIndependentCounters ==
    op = "spammy" =>
        /\ readFirst = readLast => (ret <=> CountersOverLimit(readLast))
        /\ CountersOverLimit(readLast) => ret
        /\ ret => CountersOverLimit(readFirst)

\* spammy answered TRUE while the counter of a shorter period had already
\* dropped an event the shared log still holds
C9_Witness ==
    /\ op = "spammy" /\ readFirst = readLast /\ ret
    /\ Len(intervals) = 2
    /\ \E k \in 1..2 : Len(counters[k]) < Len(event_timestamps)
    /\ \E k \in 1..2 : Len(counters[k]) = Len(event_timestamps)

C14_AgingOnlyClears ==
    [][/\ op' # "stamp" => event_timestamps' = event_timestamps
       /\ (op' = "spammy" /\ streak # <<>>)
             => (ret' => streak[Len(streak)])]_vars

\* spammy went from TRUE to FALSE with no stamp() between the two reads,
\* the aged-out timestamps still in the log
C14_Witness ==
    /\ op = "spammy"
    /\ streak = <<TRUE, FALSE>>
    /\ event_timestamps # <<>>
    /\ \A k \in 1..Len(intervals) : intervals[k].frequency >= 1

Sorted(s) == \A a, b \in 1..Len(s) : a < b => s[a] <= s[b]

\* s is t with some first entries removed
IsSuffix(s, t) == Len(s) <= Len(t) /\ s = SubSeq(t, Len(t) - Len(s) + 1, Len(t))

\* C15: the log is always sorted in non-decreasing order, and the entries
\* stamp() discards form a prefix of the prior log: what it keeps of the
\* prior log is a suffix of it.
C15_ChronologicalOrder ==
    /\ Sorted(event_timestamps)
    /\ op = "stamp" =>
          \E n \in 0..Len(prev_timestamps) :
              \/ event_timestamps = SubSeq(prev_timestamps, n + 1, Len(prev_timestamps))
              \/ event_timestamps =
                    Append(SubSeq(prev_timestamps, n + 1, Len(prev_timestamps)),
                           readFirst)

\* C16: with positive frequencies only, a spammy read discard_after or more
\* after the most recent stamp() returns FALSE.
C16_ResetByAging ==
    (/\ op = "spammy"
     /\ \A k \in 1..Len(intervals) : intervals[k].frequency >= 1
     /\ history # <<>>
     /\ readFirst >= history[Len(history)] + discard_after)
        => ~ret

\* spammy returns FALSE discard_after after a stamp() that had put the
\* tracker over the limit; the log still holds the aged timestamps
C16_Witness ==
    /\ op = "spammy" /\ ~ret
    /\ \A k \in 1..Len(intervals) : intervals[k].frequency >= 1
    /\ history # <<>>
    /\ readFirst >= history[Len(history)] + discard_after
    /\ OverLimit(event_timestamps, intervals, history[Len(history)])

\* C17: a stamp() during which the clock does not advance adds exactly one
\* to the count of every interval with a positive period, and a tracker that
\* was spammy before it is spammy after it.
C17_StampNeverClears ==
    [][(op' = "stamp" /\ now' = now) =>
          /\ \A k \in 1..Len(intervals) :
                intervals[k].period > 0 =>
                    Cardinality(InWindow(event_timestamps', intervals[k].period, now))
                      = Cardinality(InWindow(event_timestamps, intervals[k].period, now)) + 1
          /\ spammy(event_timestamps, intervals, now,
                    Steady(Len(intervals) * Len(event_timestamps)))
                => spammy(event_timestamps', intervals, now,
                          Steady(Len(intervals) * Len(event_timestamps')))]_vars

\* a stamp() on a tracker that an interval of positive frequency had already
\* put over the limit
C17_Witness ==
    /\ op = "stamp" /\ readFirst = readLast
    /\ \E k \in 1..Len(intervals) :
          /\ intervals[k].frequency >= 1 /\ intervals[k].period > 0
          /\ Breached(prev_timestamps, intervals[k], now)
          /\ Breached(event_timestamps, intervals[k], now)
    /\ Len(event_timestamps) = Len(prev_timestamps) + 1

\* C18: with positive periods only, the log right after stamp() is not empty
\* and its last entry is the timestamp this call appended, the clock being
\* read once for the append and again for the filter.
C18_StampKeepsOwnEvent ==
    (op = "stamp" /\ \A k \in 1..Len(intervals) : intervals[k].period > 0)
        => /\ event_timestamps # <<>>
           /\ event_timestamps[Len(event_timestamps)] = readFirst

\* C19: whatever list the constructor accepted, the log is empty until the
\* first stamp() and every spammy read before it returns FALSE.
C19_FreshIsNotSpammy ==
    history = <<>> =>
        /\ event_timestamps = <<>>
        /\ op = "spammy" => ~ret
\* ---- C11 ----
Count(ts, v) == Cardinality({i \in 1..Len(ts) : ts[i] = v})

\* a stamped time still younger than discard_after is missing from the log
Lost ==
    \E i \in 1..Len(history) :
        /\ history[i] + discard_after > now
        /\ Count(event_timestamps, history[i]) < Count(history, history[i])

AllIdle == \A c \in Callers : pc[c] = "idle"

\* C11: when every stamp() so far ran without a step of another caller inside
\* it, no stamped time younger than discard_after is missing from the log once
\* the calls have returned; a lost event needs two interleaved calls.
C11_AtomicStampLosesNothing == (AllIdle /\ ~overlapped) => ~Lost

\* two interleaved calls have returned and an event is lost
C11_Witness == AllIdle /\ overlapped /\ Lost /\ Len(history) = 2

\* ---- C12, C13 ----
\* the warnings and calls made so far come in pairs, warning first, and the
\* last pair is a warning followed by one call of fn with the last arguments
WarnThenCall(fn) ==
    /\ Len(events) >= 2
    /\ Len(events) % 2 = 0
    /\ \A i \in 1..Len(events) :
          events[i].ev = (IF i % 2 = 1 THEN "warn" ELSE "call")
    /\ events[Len(events)].text = fn.name
    /\ events[Len(events)].args = lastargs

\* the message the warning is documented to carry
DocumentedMessage ==
    IF message.given THEN message.text ELSE function.name \o " is unsafe for use"

\* C12: every invocation of the callable returned by warn_unsafe emits one
\* warning carrying the supplied message, or "<name> is unsafe for use" when
\* none is supplied, then calls the original once with the same arguments and
\* returns or raises what the original does.
C12_WarnUnsafeContract ==
    (form = "warn_unsafe" /\ outcome.kind # "none") =>
        /\ WarnThenCall(function)
        /\ events[Len(events) - 1].text = DocumentedMessage
        /\ outcome = Apply(function, lastargs)

\* C13: every invocation of the value returned by unsafe emits one warning,
\* then calls the target with the same arguments and returns what it returns.
C13_UnsafeContract ==
    (form = "unsafe" /\ outcome.kind # "none") =>
        /\ WarnThenCall(function)
        /\ outcome = Apply(function, lastargs)

====
